---- MODULE Spec2Model ----
(***************************************************************************)
(* State-machine model of the TeeJosh inventory API (src/src/index.ts):    *)
(* the express handlers over the tables producto, item, edicion, lenguaje, *)
(* reg_venta and producto_venta that the record-mapping client reads and   *)
(* writes.  An action is one turn of the event loop.  A handler that awaits *)
(* one collaborator call is one action (it touches no shared state before  *)
(* or after the call); DELETE /ventas/:id awaits two calls and is two      *)
(* actions, so that other requests interleave between them.  Any call may  *)
(* throw without effect (fail), as a lost connection makes it.             *)
(***************************************************************************)
EXTENDS Integers, Sequences, FiniteSets, Bags, TLC

\* ---------------------------------------------------------------- bounds
\* MaxRows: the records the requests of a run create, over all tables.
\* NumSlots: the DELETE /ventas/:id requests in flight at a time.
MaxRows == 3
NumSlots == 1

\* ------------------------------------------------------- JSON/JS values
\* A JS value is a pair <<type, payload>>; a string's payload is its index
\* in the table of strings the requests use (0 is the empty string).
Undef == <<"undefined", 0>>
Null == <<"null", 0>>
Num(n) == <<"number", n>>
Str(i) == <<"string", i>>
Bool(b) == <<"boolean", IF b THEN 1 ELSE 0>>
DateOf(secs) == <<"date", secs>>
InvalidDate == <<"date", -1>>

\* JS truthiness, as `||` and `?:` see it.
Truthy(v) ==
  CASE v[1] = "undefined" -> FALSE
    [] v[1] = "null" -> FALSE
    [] v[1] = "number" -> v[2] # 0
    [] v[1] = "string" -> v[2] # 0
    [] v[1] = "boolean" -> v[2] = 1
    [] OTHER -> TRUE

IsNum(v) == v[1] = "number"
IsDate(v) == v[1] = "date" /\ v[2] >= 0

\* `id_edicion ?? null` in place of `||`: only undefined and null give null.
OrNullish(v) == IF v \in {Undef, Null} THEN Null ELSE v

\* `id_edicion || null`
OrNull(v) == IF Truthy(v) THEN v ELSE Null

\* `fecha ? new Date(fecha) : null` and `hora ? new Date("1970-01-01T" + hora) : null`.
\* Of the strings the requests use, string 1 is the date "1970-01-02" and string
\* 2 the time of day "00:00:10"; no other parses.  A Date holds the seconds since
\* the epoch that the string denotes.
NewDate(v) == IF v = Str(1) THEN DateOf(86400) ELSE InvalidDate

NewDateAtEpoch(v) == IF v = Str(2) THEN DateOf(10) ELSE InvalidDate

ToFecha(v) == IF Truthy(v) THEN NewDate(v) ELSE Null
ToHora(v) == IF Truthy(v) THEN NewDateAtEpoch(v) ELSE Null

\* Number(req.params.id): a path parameter is a sequence of character codes,
\* 0..9 the digits and 10 a letter.
NotANumber == <<"nan", 0>>

RECURSIVE DecimalValue(_)
DecimalValue(s) ==
  IF s = <<>> THEN 0
  ELSE 10 * DecimalValue(SubSeq(s, 1, Len(s) - 1)) + s[Len(s)]

Number(s) ==
  IF \A i \in 1..Len(s) : s[i] \in 0..9 THEN Num(DecimalValue(s)) ELSE NotANumber

\* ------------------------------------------------------------ the state
VARIABLES
  productos, ediciones, lenguajes,  \* read-only tables
  items, nextItemId,                \* table item and its autoincrement
  ventas, nextVentaId,              \* table reg_venta
  pvs, nextPvId,                    \* table producto_venta
  inflight,                         \* bag of the DELETE /ventas/:id requests between their two calls
  last                              \* the request that completed last, with its responses

store == <<productos, ediciones, lenguajes, items, nextItemId,
           ventas, nextVentaId, pvs, nextPvId>>
vars == <<productos, ediciones, lenguajes, items, nextItemId,
          ventas, nextVentaId, pvs, nextPvId, inflight, last>>

itemStore == <<items, nextItemId>>
ventaStore == <<ventas, nextVentaId>>
pvStore == <<pvs, nextPvId>>
staticStore == <<productos, ediciones, lenguajes>>

\* The records created so far; the autoincrement ids are never handed out twice.
Created == (nextItemId - 1) + (nextVentaId - 1) + (nextPvId - 1)

\* The path ids the model sends for a table: every id handed out, the next one
\* (never handed out), and a parameter that is no number.
Params(next) == {<<d>> : d \in 1..next} \cup {<<10>>}

\* A DELETE /ventas/:id whose deleteMany has returned: the id it is for and the
\* number of rows the deleteMany removed.
Awaiting(id, removed) == [id |-> id, removed |-> removed]

\* ------------------------------------------------------------ responses
InternalError == [status |-> 500, text |-> "Internal server error", rows |-> <<>>]
NotFound(what) == [status |-> 404, text |-> what, rows |-> <<>>]
Json(code, rows) == [status |-> code, text |-> "", rows |-> rows]
Message(m) == [status |-> 200, text |-> m, rows |-> <<>>]

\* One collaborator call as the handler sees it: the operation, whether it
\* returned (or threw), and how many rows it returned or removed.
Call(fn, res) == [fn |-> fn, ok |-> res.ok, count |-> Cardinality(res.rows)]

\* A completed request: what it was, what it passed on, what it answered.
Done(op, id, body, data, calls, resps) ==
  [op |-> op, id |-> id, body |-> body, data |-> data, calls |-> calls, resps |-> resps]

NoBody == [none |-> Undef]

\* Each action is one turn of the event loop: a handler runs from the call it
\* awaited to its response (or to its next await).  last is what the turn
\* answered; it is cleared when the turn ends, before the next one starts.
NoRequest == Done("none", NotANumber, NoBody, NoBody, <<>>, <<>>)
Quiet == last = NoRequest

\* Every order a list without orderBy may come back in.
Orders(S) ==
  {q \in UNION {[1..n -> S] : n \in {Cardinality(S)}} :
     \A i, j \in 1..Cardinality(S) : i # j => q[i] # q[j]}

\* --------------------------------------------------- collaborator: item
ItemFields == {"id_producto", "precio", "cantidad", "id_edicion", "id_lenguaje"}

RefOk(v, table) == IsNum(v) /\ \E r \in table : r.id = v[2]

\* The schema the client validates against: required numeric columns,
\* foreign keys to producto and lenguaje, a nullable foreign key to edicion.
\* In an update an undefined field is left out of the write.
ItemDataValid(data, creating) ==
  /\ (data.id_producto = Undef /\ ~creating) \/ RefOk(data.id_producto, productos)
  /\ (data.precio = Undef /\ ~creating) \/ IsNum(data.precio)
  /\ (data.cantidad = Undef /\ ~creating) \/ IsNum(data.cantidad)
  /\ (data.id_lenguaje = Undef /\ ~creating) \/ RefOk(data.id_lenguaje, lenguajes)
  /\ data.id_edicion \in {Undef, Null} \/ RefOk(data.id_edicion, ediciones)

ItemRow(id, data) ==
  [id |-> id, id_producto |-> data.id_producto, precio |-> data.precio,
   cantidad |-> data.cantidad,
   id_edicion |-> IF data.id_edicion = Undef THEN Null ELSE data.id_edicion,
   id_lenguaje |-> data.id_lenguaje]

\* prisma.item.update writes the fields of data that are not undefined.
ItemMerge(row, data) ==
  [f \in DOMAIN row |->
     IF f \in ItemFields /\ data[f] # Undef THEN data[f] ELSE row[f]]

\* Each call gives [ok, rows, table, next]: whether it returned or threw, the
\* rows it returned, and the table and counter it leaves.
ItemFindUnique(id, fail) ==
  IF fail \/ ~IsNum(id)
  THEN [ok |-> FALSE, rows |-> {}, table |-> items, next |-> nextItemId]
  ELSE [ok |-> TRUE, rows |-> {r \in items : r.id = id[2]},
        table |-> items, next |-> nextItemId]

ItemFindMany(fail) ==
  [ok |-> ~fail, rows |-> IF fail THEN {} ELSE items, table |-> items, next |-> nextItemId]

ItemCreate(data, fail) ==
  IF fail \/ ~ItemDataValid(data, TRUE)
  THEN [ok |-> FALSE, rows |-> {}, table |-> items, next |-> nextItemId]
  ELSE [ok |-> TRUE, rows |-> {ItemRow(nextItemId, data)},
        table |-> items \cup {ItemRow(nextItemId, data)}, next |-> nextItemId + 1]

ItemUpdate(id, data, fail) ==
  IF fail \/ ~IsNum(id) \/ ~ItemDataValid(data, FALSE)
     \/ ~\E r \in items : r.id = id[2]
  THEN [ok |-> FALSE, rows |-> {}, table |-> items, next |-> nextItemId]
  ELSE LET old == CHOOSE r \in items : r.id = id[2]
       IN [ok |-> TRUE, rows |-> {ItemMerge(old, data)},
           table |-> (items \ {old}) \cup {ItemMerge(old, data)}, next |-> nextItemId]

ItemDelete(id, fail) ==
  IF fail \/ ~IsNum(id) \/ ~\E r \in items : r.id = id[2]
  THEN [ok |-> FALSE, rows |-> {}, table |-> items, next |-> nextItemId]
  ELSE [ok |-> TRUE, rows |-> {r \in items : r.id = id[2]},
        table |-> {r \in items : r.id # id[2]}, next |-> nextItemId]

\* include: { producto: {select: {id, nombre}}, edicion: ..., lenguaje: ... }
ItemInclude(r) ==
  [row |-> r,
   producto |-> {p \in productos : Num(p.id) = r.id_producto},
   edicion |-> {e \in ediciones : Num(e.id) = r.id_edicion},
   lenguaje |-> {l \in lenguajes : Num(l.id) = r.id_lenguaje}]

\* ------------------------------------------------------- handlers: item
\* precio and cantidad taken from each other's body field.
ItemDataSwapped(body) ==
  [id_producto |-> body.id_producto, precio |-> body.cantidad,
   cantidad |-> body.precio, id_edicion |-> OrNull(body.id_edicion),
   id_lenguaje |-> body.id_lenguaje]

\* The data object POST /items and PUT /items/:id build from req.body.
ItemData(body) ==
  [id_producto |-> body.id_producto, precio |-> body.precio,
   cantidad |-> body.cantidad, id_edicion |-> OrNull(body.id_edicion),
   id_lenguaje |-> body.id_lenguaje]

\* The one row a call returned, as a JSON body.
One(rows) == <<CHOOSE r \in rows : TRUE>>

\* GET /items/:id without its `if (!item)` check: null goes out as 200.
GetItemByIdRespsNoCheck(res) ==
  IF ~res.ok THEN <<InternalError>>
  ELSE IF res.rows = {} THEN <<Json(200, <<>>)>>
  ELSE <<Json(200, One(res.rows))>>

GetItemByIdResps(res) ==
  IF ~res.ok THEN <<InternalError>>
  ELSE IF res.rows = {} THEN <<NotFound("Item not found")>>
  ELSE <<Json(200, One(res.rows))>>

\* POST /items whose res.json throws after the create: the catch answers 500.
PostItemRespsAfterThrow(res) == <<InternalError>>

PostItemResps(res) ==
  IF res.ok THEN <<Json(201, One(res.rows))>> ELSE <<InternalError>>

\* PUT /items/:id answering 404 when the update throws.
PutItemResps404(res) ==
  IF res.ok THEN <<Json(200, One(res.rows))>> ELSE <<NotFound("Item not found")>>

PutItemResps(res) ==
  IF res.ok THEN <<Json(200, One(res.rows))>> ELSE <<InternalError>>

DeleteItemResps(res) ==
  IF res.ok THEN <<Message("Item deleted successfully")>> ELSE <<InternalError>>

ListResps(res, q) == IF res.ok THEN <<Json(200, q)>> ELSE <<InternalError>>

\* The requests the model sends.
ItemParams == Params(nextItemId)

ItemBodies ==
  [id_producto : {Num(1)},
   precio : {Undef, Num(5)},
   cantidad : {Num(3)},
   id_edicion : {Undef, Null, Num(0), Str(0), Bool(FALSE), Num(1)},
   id_lenguaje : {Num(1)}]

GetItems(fail) ==
  LET res == ItemFindMany(fail)
  IN /\ Quiet
     /\ \E q \in Orders({ItemInclude(r) : r \in res.rows}) :
          last' = Done("GET /items", NotANumber, NoBody, NoBody,
                       <<Call("item.findMany", res)>>, ListResps(res, q))
     /\ UNCHANGED <<store, inflight>>

GetItemById(p, fail) ==
  LET id == Number(p)
      res == ItemFindUnique(id, fail)
  IN /\ Quiet
     /\ last' = Done("GET /items/:id", id, NoBody, NoBody,
                     <<Call("item.findUnique", res)>>, GetItemByIdResps(res))
     /\ UNCHANGED <<store, inflight>>

PostItem(body, fail) ==
  LET data == ItemData(body)
      res == ItemCreate(data, fail)
  IN /\ Quiet
     /\ Created < MaxRows
     /\ items' = res.table
     /\ nextItemId' = res.next
     /\ last' = Done("POST /items", NotANumber, body, data,
                     <<Call("item.create", res)>>, PostItemResps(res))
     /\ UNCHANGED <<staticStore, ventaStore, pvStore, inflight>>

PutItem(p, body, fail) ==
  LET id == Number(p)
      data == ItemData(body)
      res == ItemUpdate(id, data, fail)
  IN /\ Quiet
     /\ items' = res.table
     /\ nextItemId' = res.next
     /\ last' = Done("PUT /items/:id", id, body, data,
                     <<Call("item.update", res)>>, PutItemResps(res))
     /\ UNCHANGED <<staticStore, ventaStore, pvStore, inflight>>

DeleteItem(p, fail) ==
  LET id == Number(p)
      res == ItemDelete(id, fail)
  IN /\ Quiet
     /\ items' = res.table
     /\ nextItemId' = res.next
     /\ last' = Done("DELETE /items/:id", id, NoBody, NoBody,
                     <<Call("item.delete", res)>>, DeleteItemResps(res))
     /\ UNCHANGED <<staticStore, ventaStore, pvStore, inflight>>

\* ---------------------------------------- collaborator: read-only tables
FindMany(table, fail) == [ok |-> ~fail, rows |-> IF fail THEN {} ELSE table]

\* ---------------------------------------------- collaborator: reg_venta
VentaFields == {"monto_total", "fecha", "hora", "m_pago"}

\* reg_venta: a required amount and payment method, nullable date and time.
VentaDataValid(data, creating) ==
  /\ (data.monto_total = Undef /\ ~creating) \/ IsNum(data.monto_total)
  /\ data.fecha \in {Undef, Null} \/ IsDate(data.fecha)
  /\ data.hora \in {Undef, Null} \/ IsDate(data.hora)
  /\ (data.m_pago = Undef /\ ~creating) \/ data.m_pago[1] = "string"

VentaRow(id, data) ==
  [id_reg_venta |-> id, monto_total |-> data.monto_total,
   fecha |-> IF data.fecha = Undef THEN Null ELSE data.fecha,
   hora |-> IF data.hora = Undef THEN Null ELSE data.hora,
   m_pago |-> data.m_pago]

VentaMerge(row, data) ==
  [f \in DOMAIN row |->
     IF f \in VentaFields /\ data[f] # Undef THEN data[f] ELSE row[f]]

\* include: { producto_venta: true }
VentaInclude(r) ==
  [row |-> r, producto_venta |-> {l \in pvs : l.id_reg_venta = Num(r.id_reg_venta)}]

\* orderBy: { id_reg_venta: "asc" } in place of "desc".
RECURSIVE OrderByAsc(_)
OrderByAsc(S) ==
  IF S = {} THEN <<>>
  ELSE LET m == CHOOSE r \in S : \A o \in S : o.row.id_reg_venta >= r.row.id_reg_venta
       IN <<m>> \o OrderByAsc(S \ {m})

\* orderBy: { id_reg_venta: "desc" }
RECURSIVE OrderByDesc(_)
OrderByDesc(S) ==
  IF S = {} THEN <<>>
  ELSE LET m == CHOOSE r \in S : \A o \in S : o.row.id_reg_venta <= r.row.id_reg_venta
       IN <<m>> \o OrderByDesc(S \ {m})

VentaFindMany(fail) ==
  [ok |-> ~fail, rows |-> IF fail THEN {} ELSE {VentaInclude(r) : r \in ventas},
   table |-> ventas, next |-> nextVentaId]

VentaFindUnique(id, fail) ==
  IF fail \/ ~IsNum(id)
  THEN [ok |-> FALSE, rows |-> {}, table |-> ventas, next |-> nextVentaId]
  ELSE [ok |-> TRUE,
        rows |-> {VentaInclude(r) : r \in {v \in ventas : v.id_reg_venta = id[2]}},
        table |-> ventas, next |-> nextVentaId]

VentaCreate(data, fail) ==
  IF fail \/ ~VentaDataValid(data, TRUE)
  THEN [ok |-> FALSE, rows |-> {}, table |-> ventas, next |-> nextVentaId]
  ELSE [ok |-> TRUE, rows |-> {VentaRow(nextVentaId, data)},
        table |-> ventas \cup {VentaRow(nextVentaId, data)}, next |-> nextVentaId + 1]

VentaUpdate(id, data, fail) ==
  IF fail \/ ~IsNum(id) \/ ~VentaDataValid(data, FALSE)
     \/ ~\E r \in ventas : r.id_reg_venta = id[2]
  THEN [ok |-> FALSE, rows |-> {}, table |-> ventas, next |-> nextVentaId]
  ELSE LET old == CHOOSE r \in ventas : r.id_reg_venta = id[2]
       IN [ok |-> TRUE, rows |-> {VentaMerge(old, data)},
           table |-> (ventas \ {old}) \cup {VentaMerge(old, data)}, next |-> nextVentaId]

\* The foreign key of producto_venta to reg_venta does not cascade: the store
\* refuses to delete a sale that line items still name.
VentaHasLines(id) == \E l \in pvs : l.id_reg_venta = id

VentaDelete(id, fail) ==
  IF fail \/ ~IsNum(id) \/ ~(\E r \in ventas : r.id_reg_venta = id[2])
     \/ VentaHasLines(id)
  THEN [ok |-> FALSE, rows |-> {}, table |-> ventas, next |-> nextVentaId]
  ELSE [ok |-> TRUE, rows |-> {r \in ventas : r.id_reg_venta = id[2]},
        table |-> {r \in ventas : r.id_reg_venta # id[2]}, next |-> nextVentaId]

\* ----------------------------------------- collaborator: producto_venta
PvFields == {"id_producto", "id_reg_venta", "cantidad", "monto"}

VentaRefOk(v) == IsNum(v) /\ \E r \in ventas : r.id_reg_venta = v[2]

\* producto_venta: foreign keys to producto and reg_venta, numeric columns.
PvDataValid(data, creating) ==
  /\ (data.id_producto = Undef /\ ~creating) \/ RefOk(data.id_producto, productos)
  /\ (data.id_reg_venta = Undef /\ ~creating) \/ VentaRefOk(data.id_reg_venta)
  /\ (data.cantidad = Undef /\ ~creating) \/ IsNum(data.cantidad)
  /\ (data.monto = Undef /\ ~creating) \/ IsNum(data.monto)

PvRow(id, data) ==
  [id |-> id, id_producto |-> data.id_producto, id_reg_venta |-> data.id_reg_venta,
   cantidad |-> data.cantidad, monto |-> data.monto]

PvMerge(row, data) ==
  [f \in DOMAIN row |->
     IF f \in PvFields /\ data[f] # Undef THEN data[f] ELSE row[f]]

\* include: { producto: true, reg_venta: true }
PvInclude(l) ==
  [row |-> l,
   producto |-> {p \in productos : Num(p.id) = l.id_producto},
   reg_venta |-> {v \in ventas : Num(v.id_reg_venta) = l.id_reg_venta}]

PvFindMany(fail) ==
  [ok |-> ~fail, rows |-> IF fail THEN {} ELSE {PvInclude(l) : l \in pvs},
   table |-> pvs, next |-> nextPvId]

PvCreate(data, fail) ==
  IF fail \/ ~PvDataValid(data, TRUE)
  THEN [ok |-> FALSE, rows |-> {}, table |-> pvs, next |-> nextPvId]
  ELSE [ok |-> TRUE, rows |-> {PvRow(nextPvId, data)},
        table |-> pvs \cup {PvRow(nextPvId, data)}, next |-> nextPvId + 1]

PvUpdate(id, data, fail) ==
  IF fail \/ ~IsNum(id) \/ ~PvDataValid(data, FALSE) \/ ~\E l \in pvs : l.id = id[2]
  THEN [ok |-> FALSE, rows |-> {}, table |-> pvs, next |-> nextPvId]
  ELSE LET old == CHOOSE l \in pvs : l.id = id[2]
       IN [ok |-> TRUE, rows |-> {PvMerge(old, data)},
           table |-> (pvs \ {old}) \cup {PvMerge(old, data)}, next |-> nextPvId]

PvDelete(id, fail) ==
  IF fail \/ ~IsNum(id) \/ ~\E l \in pvs : l.id = id[2]
  THEN [ok |-> FALSE, rows |-> {}, table |-> pvs, next |-> nextPvId]
  ELSE [ok |-> TRUE, rows |-> {l \in pvs : l.id = id[2]},
        table |-> {l \in pvs : l.id # id[2]}, next |-> nextPvId]

\* deleteMany() without its where clause: every row goes.
PvDeleteManyNoWhere(id, fail) ==
  IF fail \/ ~IsNum(id)
  THEN [ok |-> FALSE, rows |-> {}, table |-> pvs, next |-> nextPvId]
  ELSE [ok |-> TRUE, rows |-> pvs, table |-> {}, next |-> nextPvId]

\* deleteMany({ where: { id_reg_venta } }) removes every matching row and
\* does not throw when there is none.
PvDeleteMany(id, fail) ==
  IF fail \/ ~IsNum(id)
  THEN [ok |-> FALSE, rows |-> {}, table |-> pvs, next |-> nextPvId]
  ELSE [ok |-> TRUE, rows |-> {l \in pvs : l.id_reg_venta = id},
        table |-> {l \in pvs : l.id_reg_venta # id}, next |-> nextPvId]

\* -------------------------------------------- handlers: read-only lists
GetRoot ==
  /\ Quiet
  /\ last' = Done("GET /", NotANumber, NoBody, NoBody, <<>>,
                  <<[status |-> 200, text |-> "API is running", rows |-> <<>>]>>)
  /\ UNCHANGED <<store, inflight>>

GetProductos(fail) ==
  LET res == FindMany(productos, fail)
  IN /\ Quiet
     /\ \E q \in Orders(res.rows) :
          last' = Done("GET /productos", NotANumber, NoBody, NoBody,
                       <<Call("producto.findMany", res)>>, ListResps(res, q))
     /\ UNCHANGED <<store, inflight>>

GetEdiciones(fail) ==
  LET res == FindMany(ediciones, fail)
  IN /\ Quiet
     /\ \E q \in Orders(res.rows) :
          last' = Done("GET /ediciones", NotANumber, NoBody, NoBody,
                       <<Call("edicion.findMany", res)>>, ListResps(res, q))
     /\ UNCHANGED <<store, inflight>>

GetLenguajes(fail) ==
  LET res == FindMany(lenguajes, fail)
  IN /\ Quiet
     /\ \E q \in Orders(res.rows) :
          last' = Done("GET /lenguajes", NotANumber, NoBody, NoBody,
                       <<Call("lenguaje.findMany", res)>>, ListResps(res, q))
     /\ UNCHANGED <<store, inflight>>

\* ----------------------------------------------------- handlers: ventas
\* `fecha && new Date(fecha)` in place of the `?:` with its null.
VentaDataNoNull(body) ==
  [monto_total |-> body.monto_total,
   fecha |-> IF Truthy(body.fecha) THEN NewDate(body.fecha) ELSE body.fecha,
   hora |-> IF Truthy(body.hora) THEN NewDateAtEpoch(body.hora) ELSE body.hora,
   m_pago |-> body.m_pago]

VentaData(body) ==
  [monto_total |-> body.monto_total, fecha |-> ToFecha(body.fecha),
   hora |-> ToHora(body.hora), m_pago |-> body.m_pago]

\* GET /ventas/:id without the `return` before its 404: a second response follows.
GetVentaByIdRespsNoReturn(res) ==
  IF ~res.ok THEN <<InternalError>>
  ELSE IF res.rows = {} THEN <<NotFound("Venta not found"), InternalError>>
  ELSE <<Json(200, One(res.rows))>>

GetVentaByIdResps(res) ==
  IF ~res.ok THEN <<InternalError>>
  ELSE IF res.rows = {} THEN <<NotFound("Venta not found")>>
  ELSE <<Json(200, One(res.rows))>>

PostVentaResps(res) ==
  IF res.ok THEN <<Json(201, One(res.rows))>> ELSE <<InternalError>>

PutVentaResps(res) ==
  IF res.ok THEN <<Json(200, One(res.rows))>> ELSE <<InternalError>>

\* DELETE /ventas/:id answering 200 from its catch as well.
DeleteVentaRespsSwallowed(res) == <<Message("Venta deleted successfully")>>

DeleteVentaResps(res) ==
  IF res.ok THEN <<Message("Venta deleted successfully")>> ELSE <<InternalError>>

VentaParams == Params(nextVentaId)

VentaBodies ==
  {[monto_total |-> m, fecha |-> w[1], hora |-> w[2], m_pago |-> Str(6)] :
     m \in {Undef, Num(10)},
     w \in {<<Undef, Undef>>, <<Str(0), Str(0)>>, <<Str(1), Str(2)>>}}

GetVentas(fail) ==
  LET res == VentaFindMany(fail)
  IN /\ Quiet
     /\ last' = Done("GET /ventas", NotANumber, NoBody, NoBody,
                     <<Call("reg_venta.findMany", res)>>,
                     ListResps(res, OrderByDesc(res.rows)))
     /\ UNCHANGED <<store, inflight>>

GetVentaById(p, fail) ==
  LET id == Number(p)
      res == VentaFindUnique(id, fail)
  IN /\ Quiet
     /\ last' = Done("GET /ventas/:id", id, NoBody, NoBody,
                     <<Call("reg_venta.findUnique", res)>>, GetVentaByIdResps(res))
     /\ UNCHANGED <<store, inflight>>

PostVenta(body, fail) ==
  LET data == VentaData(body)
      res == VentaCreate(data, fail)
  IN /\ Quiet
     /\ Created < MaxRows
     /\ ventas' = res.table
     /\ nextVentaId' = res.next
     /\ last' = Done("POST /ventas", NotANumber, body, data,
                     <<Call("reg_venta.create", res)>>, PostVentaResps(res))
     /\ UNCHANGED <<staticStore, itemStore, pvStore, inflight>>

PutVenta(p, body, fail) ==
  LET id == Number(p)
      data == VentaData(body)
      res == VentaUpdate(id, data, fail)
  IN /\ Quiet
     /\ ventas' = res.table
     /\ nextVentaId' = res.next
     /\ last' = Done("PUT /ventas/:id", id, body, data,
                     <<Call("reg_venta.update", res)>>, PutVentaResps(res))
     /\ UNCHANGED <<staticStore, itemStore, pvStore, inflight>>

\* DELETE /ventas/:id up to its first await: deleteMany of the line items.
\* When the call throws the handler answers 500 at once.
DeleteVentaLines(p, fail) ==
  LET id == Number(p)
      res == PvDeleteMany(id, fail)
  IN /\ Quiet
     /\ BagCardinality(inflight) < NumSlots
     /\ pvs' = res.table
     /\ nextPvId' = res.next
     /\ IF res.ok
        THEN /\ inflight' = inflight (+) SetToBag({Awaiting(id, Cardinality(res.rows))})
             /\ UNCHANGED last
        ELSE /\ last' = Done("DELETE /ventas/:id", id, NoBody, NoBody,
                             <<Call("producto_venta.deleteMany", res)>>,
                             DeleteVentaResps(res))
             /\ UNCHANGED inflight
     /\ UNCHANGED <<staticStore, itemStore, ventaStore>>

\* DELETE /ventas/:id from its second await: delete of the sale, and the answer.
DeleteVentaRecord(r, fail) ==
  LET id == r.id
      res == VentaDelete(id, fail)
  IN /\ Quiet
     /\ BagIn(r, inflight)
     /\ ventas' = res.table
     /\ nextVentaId' = res.next
     /\ last' = Done("DELETE /ventas/:id", id, NoBody, NoBody,
                     <<[fn |-> "producto_venta.deleteMany", ok |-> TRUE,
                        count |-> r.removed],
                       Call("reg_venta.delete", res)>>,
                     DeleteVentaResps(res))
     /\ inflight' = inflight (-) SetToBag({r})
     /\ UNCHANGED <<staticStore, itemStore, pvStore>>

\* --------------------------------------------- handlers: producto_venta
PvData(body) ==
  [id_producto |-> body.id_producto, id_reg_venta |-> body.id_reg_venta,
   cantidad |-> body.cantidad, monto |-> body.monto]

PostPvResps(res) ==
  IF res.ok THEN <<Json(201, One(res.rows))>> ELSE <<InternalError>>

PutPvResps(res) ==
  IF res.ok THEN <<Json(200, One(res.rows))>> ELSE <<InternalError>>

DeletePvResps(res) ==
  IF res.ok THEN <<Message("ProductoVenta deleted successfully")>> ELSE <<InternalError>>

PvParams == Params(nextPvId)

PvBodies ==
  [id_producto : {Num(1)},
   id_reg_venta : {Undef} \cup {Num(i) : i \in 1..nextVentaId},
   cantidad : {Undef, Num(1)},
   monto : {Num(10)}]

GetPvs(fail) ==
  LET res == PvFindMany(fail)
  IN /\ Quiet
     /\ \E q \in Orders(res.rows) :
          last' = Done("GET /producto_venta", NotANumber, NoBody, NoBody,
                       <<Call("producto_venta.findMany", res)>>, ListResps(res, q))
     /\ UNCHANGED <<store, inflight>>

PostPv(body, fail) ==
  LET data == PvData(body)
      res == PvCreate(data, fail)
  IN /\ Quiet
     /\ Created < MaxRows
     /\ pvs' = res.table
     /\ nextPvId' = res.next
     /\ last' = Done("POST /producto_venta", NotANumber, body, data,
                     <<Call("producto_venta.create", res)>>, PostPvResps(res))
     /\ UNCHANGED <<staticStore, itemStore, ventaStore, inflight>>

PutPv(p, body, fail) ==
  LET id == Number(p)
      data == PvData(body)
      res == PvUpdate(id, data, fail)
  IN /\ Quiet
     /\ pvs' = res.table
     /\ nextPvId' = res.next
     /\ last' = Done("PUT /producto_venta/:id", id, body, data,
                     <<Call("producto_venta.update", res)>>, PutPvResps(res))
     /\ UNCHANGED <<staticStore, itemStore, ventaStore, inflight>>

DeletePv(p, fail) ==
  LET id == Number(p)
      res == PvDelete(id, fail)
  IN /\ Quiet
     /\ pvs' = res.table
     /\ nextPvId' = res.next
     /\ last' = Done("DELETE /producto_venta/:id", id, NoBody, NoBody,
                     <<Call("producto_venta.delete", res)>>, DeletePvResps(res))
     /\ UNCHANGED <<staticStore, itemStore, ventaStore, inflight>>

\* ------------------------------------------------------------ behaviour
Init ==
  /\ productos = {[id |-> 1, nombre |-> Str(3)]}
  /\ ediciones = {[id |-> 1, nombre |-> Str(4)]}
  /\ lenguajes = {[id |-> 1, nombre |-> Str(5)]}
  /\ items = {}
  /\ nextItemId = 1
  /\ ventas = {}
  /\ nextVentaId = 1
  /\ pvs = {}
  /\ nextPvId = 1
  /\ inflight = EmptyBag
  /\ last = NoRequest

EndTurn ==
  /\ ~Quiet
  /\ last' = NoRequest
  /\ UNCHANGED <<store, inflight>>

Next ==
  \/ EndTurn
  \/ GetRoot
  \/ Quiet /\ \E fail \in BOOLEAN : GetProductos(fail)
  \/ Quiet /\ \E fail \in BOOLEAN : GetEdiciones(fail)
  \/ Quiet /\ \E fail \in BOOLEAN : GetLenguajes(fail)
  \/ Quiet /\ \E fail \in BOOLEAN : GetItems(fail)
  \/ Quiet /\ \E p \in ItemParams, fail \in BOOLEAN : GetItemById(p, fail)
  \/ Quiet /\ \E b \in ItemBodies, fail \in BOOLEAN : PostItem(b, fail)
  \/ Quiet /\ \E p \in ItemParams, b \in ItemBodies, fail \in BOOLEAN : PutItem(p, b, fail)
  \/ Quiet /\ \E p \in ItemParams, fail \in BOOLEAN : DeleteItem(p, fail)
  \/ Quiet /\ \E fail \in BOOLEAN : GetVentas(fail)
  \/ Quiet /\ \E p \in VentaParams, fail \in BOOLEAN : GetVentaById(p, fail)
  \/ Quiet /\ \E b \in VentaBodies, fail \in BOOLEAN : PostVenta(b, fail)
  \/ Quiet /\ \E p \in VentaParams, b \in VentaBodies, fail \in BOOLEAN : PutVenta(p, b, fail)
  \/ Quiet /\ \E p \in VentaParams, fail \in BOOLEAN : DeleteVentaLines(p, fail)
  \/ Quiet /\ \E r \in BagToSet(inflight), fail \in BOOLEAN : DeleteVentaRecord(r, fail)
  \/ Quiet /\ \E fail \in BOOLEAN : GetPvs(fail)
  \/ Quiet /\ \E b \in PvBodies, fail \in BOOLEAN : PostPv(b, fail)
  \/ Quiet /\ \E p \in PvParams, b \in PvBodies, fail \in BOOLEAN : PutPv(p, b, fail)
  \/ Quiet /\ \E p \in PvParams, fail \in BOOLEAN : DeletePv(p, fail)

Spec == Init /\ [][Next]_vars

\* =============================================================== claims
\* The response of the turn that just ran, and the shape of a step.
Answer == last.resps[1]
Answers(op) == last.op = op /\ Len(last.resps) >= 1
HandlerTurn == Quiet /\ ~Quiet'
Falsy == {Undef, Null, Num(0), Str(0), Bool(FALSE)}
Coalesced(v) == IF v \in Falsy THEN Null ELSE v

ItemWithId(table, id) == {r \in table : Num(r.id) = id}
VentaWithId(table, id) == {r \in table : Num(r.id_reg_venta) = id}
LinesOf(table, id) == {l \in table : l.id_reg_venta = id}

\* Sale ids the store has handed out and holds no more: only the second call
\* of DELETE /ventas/:id removes a sale.
DeletedSales ==
  {i \in 1..(nextVentaId - 1) : VentaWithId(ventas, Num(i)) = {}}

C4_MissingItemIs404 ==
  (Answers("GET /items/:id") /\ ItemWithId(items, last.id) = {}) =>
    /\ Answer.status # 200
    /\ last.calls[1].ok =>
         last.resps = <<[status |-> 404, text |-> "Item not found", rows |-> <<>>]>>

\* C4 witness: an item that was created and deleted is looked up and gives 404.
C4_Witness ==
  /\ Answers("GET /items/:id")
  /\ IsNum(last.id)
  /\ last.id[2] < nextItemId
  /\ ItemWithId(items, last.id) = {}
  /\ Answer.status = 404

\* C5: POST /items and PUT /items/:id hand the collaborator id_edicion = null for
\* an omitted or falsy id_edicion and the value itself otherwise, every other body
\* field as it came; and what a successful request persisted is that.
C5_IdEdicionCoalesced ==
  (Answers("POST /items") \/ Answers("PUT /items/:id")) =>
    /\ last.data.id_edicion = Coalesced(last.body.id_edicion)
    /\ \A f \in ItemFields \ {"id_edicion"} : last.data[f] = last.body[f]
    /\ Answer.status \in {200, 201} =>
         \E r \in items :
           /\ Answer.rows = <<r>>
           /\ r.id_edicion = Coalesced(last.body.id_edicion)
           /\ \A f \in ItemFields \ {"id_edicion"} :
                last.body[f] # Undef => r[f] = last.body[f]

\* C5 witness: a POST with id_edicion = 0 has persisted an item with id_edicion null.
C5_Witness ==
  /\ Answers("POST /items")
  /\ Answer.status = 201
  /\ last.body.id_edicion = Num(0)
  /\ \E r \in items : Answer.rows = <<r>> /\ r.id_edicion = Null

\* C8: a turn that answers sends exactly one response; a request makes at most
\* two collaborator calls, two only in DELETE /ventas/:id, whose second call
\* (reg_venta.delete) follows a deleteMany that returned.
C8_OneResponseAtMostTwoCalls ==
  /\ ~Quiet =>
       /\ Len(last.resps) = 1
       /\ Len(last.calls) <= 2
       /\ Len(last.calls) = 2 =>
            /\ last.op = "DELETE /ventas/:id"
            /\ last.calls[1].fn = "producto_venta.deleteMany"
            /\ last.calls[1].ok
            /\ last.calls[2].fn = "reg_venta.delete"
  /\ BagCardinality(inflight) <= NumSlots

\* C8 witness: a DELETE /ventas/:id has answered after its two calls.
C8_Witness ==
  /\ Answers("DELETE /ventas/:id")
  /\ Len(last.calls) = 2
  /\ Len(last.resps) = 1

\* C9: a successful GET /ventas lists every sale of the store once, in strictly
\* descending id_reg_venta, each with exactly the producto_venta rows of that sale.
C9_VentasDescending ==
  (Answers("GET /ventas") /\ Answer.status = 200) =>
    LET q == Answer.rows
    IN /\ \A i \in 1..(Len(q) - 1) : q[i].row.id_reg_venta > q[i + 1].row.id_reg_venta
       /\ {q[i].row : i \in 1..Len(q)} = ventas
       /\ \A i \in 1..Len(q) :
            q[i].producto_venta = LinesOf(pvs, Num(q[i].row.id_reg_venta))

\* C9 witness: the list holds two sales and a line item.
C9_Witness ==
  /\ Answers("GET /ventas")
  /\ Answer.status = 200
  /\ Len(Answer.rows) = 2
  /\ \E i \in 1..2 : Answer.rows[i].producto_venta # {}

\* What a write leaves in a column: the body's value when the body has the
\* field, the stored value when the body leaves it out.
Written(old, body, f) == IF body[f] = Undef THEN old[f] ELSE body[f]

\* The turn that just ran answered a request for op with a success status.
Succeeded(op) == HandlerTurn /\ last'.op = op /\ last'.resps[1].status \in {200, 201}
Failed == HandlerTurn /\ last'.resps[1].status \in {404, 500}

\* C2 as stated: a handler other than DELETE /ventas/:id that answers an error
\* leaves the store as it was, and a DELETE /ventas/:id whose deleteMany returned
\* and whose delete threw answers 500 with the sale still there and no line item
\* of it left.
C2_AsStated ==
  [][/\ (Failed /\ last'.op # "DELETE /ventas/:id") => store' = store
     /\ (HandlerTurn /\ last'.op = "DELETE /ventas/:id"
         /\ Len(last'.calls) = 2 /\ ~last'.calls[2].ok) =>
          /\ last'.resps = <<InternalError>>
          /\ VentaWithId(ventas', last'.id) # {}
          /\ LinesOf(pvs', last'.id) = {}]_vars

\* C2 amended: a turn that answers an error leaves the store as it found it, in
\* every handler; so only DELETE /ventas/:id, the one handler with two calls,
\* answers 500 with an effect in place: the rows its deleteMany removed are not
\* put back, and the sale is there still if it was there when the delete ran.
C2_FailingCallChangesNothing ==
  [][/\ Failed => store' = store
     /\ (HandlerTurn /\ Len(last'.calls) = 2 /\ ~last'.calls[2].ok) =>
          /\ last'.op = "DELETE /ventas/:id"
          /\ last'.resps = <<InternalError>>
          /\ BagIn(Awaiting(last'.id, last'.calls[1].count), inflight)
          /\ VentaWithId(ventas, last'.id) # {} => VentaWithId(ventas', last'.id) # {}]_vars

\* C2 witness: DELETE /ventas/:id has answered 500 after removing line items;
\* the sale is still stored and has no line item.
C2_Witness ==
  /\ Answers("DELETE /ventas/:id")
  /\ Answer.status = 500
  /\ Len(last.calls) = 2
  /\ last.calls[1].count >= 1
  /\ VentaWithId(ventas, last.id) # {}
  /\ LinesOf(pvs, last.id) = {}

\* What GET /items/:id answers for id in the present store when its lookup returns.
GetItemNow(id) == GetItemByIdResps(ItemFindUnique(id, FALSE))

PutOrDelete ==
  {"PUT /items/:id", "DELETE /items/:id", "PUT /ventas/:id", "DELETE /ventas/:id",
   "PUT /producto_venta/:id", "DELETE /producto_venta/:id"}

\* The rows the request of a turn names by its path id.
Named(op, id) ==
  CASE op \in {"PUT /items/:id", "DELETE /items/:id"} -> ItemWithId(items, id)
    [] op \in {"PUT /ventas/:id", "DELETE /ventas/:id"} -> VentaWithId(ventas, id)
    [] OTHER -> ItemWithId(pvs, id)

OtherThan(table, id) == {r \in table : Num(r.id) # id}

\* C10: each of the two turns of DELETE /ventas/:id, whatever it answers, changes
\* nothing but the sale of that id and the producto_venta rows of that sale; a
\* request on an item id changes no other item and no other table.
C10_DeleteVentaFrame ==
  [][/\ \A r \in BagToSet(inflight') :
          CopiesIn(r, inflight') > CopiesIn(r, inflight) =>
            /\ pvs' = pvs \ LinesOf(pvs, r.id)
            /\ UNCHANGED <<staticStore, itemStore, ventaStore, nextPvId>>
     /\ (HandlerTurn /\ last'.op = "DELETE /ventas/:id") =>
          /\ ventas' \subseteq ventas
          /\ ventas \ ventas' \subseteq VentaWithId(ventas, last'.id)
          /\ pvs' = pvs
          /\ UNCHANGED <<staticStore, itemStore, nextVentaId, nextPvId>>
     /\ (HandlerTurn /\ last'.op \in {"GET /items/:id", "PUT /items/:id", "DELETE /items/:id"}) =>
          /\ OtherThan(items', last'.id) = OtherThan(items, last'.id)
          /\ UNCHANGED <<staticStore, ventaStore, pvStore>>]_vars

\* C10 witness: a sale has been deleted while another sale and a line item of
\* that other sale are stored.
C10_Witness ==
  /\ Answers("DELETE /ventas/:id")
  /\ Answer.status = 200
  /\ \E v \in ventas : LinesOf(pvs, Num(v.id_reg_venta)) # {}

====
